---- MODULE Spec2Model ----
(***************************************************************************)
(* Model of the Telegram ChatGPT bot (src/bot.py), its status dashboard    *)
(* (src/web_server.py) and the combined runner (src/run_combined.py).      *)
(*                                                                         *)
(* Texts are sequences of character codes.  The n-th inbound text message  *)
(* of a run is the one-character text <<n>>, so that every entry of a      *)
(* conversation history can be told from every other one.                  *)
(***************************************************************************)
EXTENDS Integers, Sequences, FiniteSets, TLC

VARIABLES
    user_conversations, \* bot.py:46   dict user id -> list of {role, content}
    task,               \* the handle_message coroutine in flight, if any
    outbox,             \* messages the running/last bot handler delivered to the chat
    result,             \* how the last bot handler ended
    received,           \* number of inbound text messages taken so far
    faults,             \* number of failed I/O calls so far
    appended,           \* per user: every message appended since the history was last empty
    bot_stats,          \* web_server.py:23  the shared stats dict
    http,               \* the last HTTP response of the sequential web handlers
    requests,           \* number of web operations taken so far
    carried,            \* per id (None included): operations begun that recorded it
    threads,            \* per web worker thread: its position and locals
    call                \* a direct call of send_long_message: arguments and position

vars == <<user_conversations, task, outbox, result, received, faults, appended,
          bot_stats, http, requests, carried, threads, call>>

botVars == <<user_conversations, task, outbox, result, received, faults, appended>>
notBotVars == <<bot_stats, http, requests, carried, threads, call>>

(***************************************************************************)
(* Program constants and model bounds                                      *)
(***************************************************************************)
max_conversation_length == 20
DefaultMaxLength == 4096

\* Spec: chat messages and web operations taken, together
MaxEvents == 2
\* SpecHistory: chat messages taken
MaxDeepMessages == 12
\* failed I/O calls (sends, completion calls) in a run
MaxFaults == 2

\* SpecChunk: longest text and largest max_length tried
MaxTextLen == 5
MaxChunkLen == 3

Users == {1, 2}
\* the values recorded in active_users: the users' ids as parsed from JSON,
\* and None (JSON null, or an argument left out)
Ids == {[t |-> "null"]} \cup {[t |-> "int", v |-> u] : u \in Users}
DeepUsers == {1}
Threads == {1, 2}
Chars == {1, 2}
Texts == UNION {[1..n -> Chars] : n \in 0..MaxTextLen}

(***************************************************************************)
(* Helpers                                                                 *)
(***************************************************************************)
Min(a, b) == IF a <= b THEN a ELSE b

Message(role, content) == [role |-> role, content |-> content]

\* Python's s[-n:]
LastN(s, n) ==
    IF n = 0 \/ Len(s) <= n THEN s ELSE SubSeq(s, Len(s) - n + 1, Len(s))

\* the limit left out
LimitHistory_Unlimited(h) == h

\* bot.py:146-147
LimitHistory(h) ==
    IF Len(h) > max_conversation_length
    THEN LastN(h, max_conversation_length)
    ELSE h

\* the history limited before the user's message is appended
AppendUserMessage_LimitFirst(h, text) == Append(LimitHistory(h), Message("user", text))

\* bot.py:140-147: append the user's message, then limit the history
AppendUserMessage(h, text) == LimitHistory(Append(h, Message("user", text)))

\* bot.py:153-156: append the assistant's reply
AppendAssistantMessage(h, response) == Append(h, Message("assistant", response))

\* user_conversations.get(user_id, [])
GetHistory(conv, u) == IF u \in DOMAIN conv THEN conv[u] ELSE << >>

\* bot.py:130-131 / 72-73
EnsureHistory(conv, u) == IF u \in DOMAIN conv THEN conv ELSE (u :> << >>) @@ conv

\* bot.py:176-189: the message list sent to the completion API
SystemMessage == Message("system", << >>)
BuildMessages(conv, u) == <<SystemMessage>> \o conv[u]

\* the slice taken one character too long: message[i:i + max_length + 1]
RECURSIVE ChunksFrom_LongSlice(_, _, _)
ChunksFrom_LongSlice(message, i, max_length) ==
    IF i >= Len(message) THEN << >>
    ELSE <<SubSeq(message, i + 1, Min(i + max_length + 1, Len(message)))>>
         \o ChunksFrom_LongSlice(message, i + max_length, max_length)

\* bot.py:213-214: for i in range(0, len(message), max_length):
\*                     chunk = message[i:i + max_length], from position i on
RECURSIVE ChunksFrom(_, _, _)
ChunksFrom(message, i, max_length) ==
    IF i >= Len(message) THEN << >>
    ELSE <<SubSeq(message, i + 1, Min(i + max_length, Len(message)))>>
         \o ChunksFrom(message, i + max_length, max_length)

\* bot.py:209-215: the texts send_long_message passes to reply_text, in order
SendLongMessageChunks(message, max_length) ==
    IF Len(message) <= max_length THEN <<message>>
    ELSE ChunksFrom(message, 0, max_length)

\* one call of reply_text: what was sent, and whether the send succeeded
Out(kind, body, ok) == [kind |-> kind, body |-> body, ok |-> ok]

\* bot.py:210-215: the reply_text calls made for the chunks when call number
\* failAt raises (0: none does); the calls after it are never made
SendChunks(chunks, failAt) ==
    [i \in 1..(IF failAt = 0 THEN Len(chunks) ELSE failAt) |->
        Out("reply", chunks[i], i # failAt)]

\* bot.py:219-230: the global error handler, run when a handler raised: it
\* sends only when the update has a message (hasMessage: update.message is
\* set; it is None for an edited message); a failure of its own send is
\* swallowed
ErrorHandlerSends(hasMessage, sendOk) ==
    IF hasMessage THEN <<Out("generic_error", << >>, sendOk)>> ELSE << >>

\* a command's single reply_text call, and the error handler's if it raised;
\* on an update without message, update.message.reply_text raises
\* AttributeError before anything is sent
CommandSends(kind, body, hasMessage, sendOk, ehOk) ==
    IF hasMessage
    THEN <<Out(kind, body, sendOk)>>
         \o (IF sendOk THEN << >> ELSE ErrorHandlerSends(hasMessage, ehOk))
    ELSE ErrorHandlerSends(hasMessage, ehOk)

\* whether the command's reply_text call returned
Replied(hasMessage, sendOk) == hasMessage /\ sendOk

Cost(flags) == Cardinality({i \in DOMAIN flags : ~flags[i]})

Idle == [pc |-> "idle"]

Response(code, status) == [code |-> code, status |-> status]
NoResponse == Response(0, "none")

\* a web worker thread between two requests; resp is its last response, the
\* other fields are the arguments and locals of the call it serves
IdleThread(resp) ==
    [pc |-> "idle", op |-> "none", status |-> "", api_status |-> "",
     response_time |-> 0, user_id |-> [t |-> "null"], n |-> 0, tmp |-> 0,
     resp |-> resp]

Result(handler, u, completion, exception) ==
    [handler |-> handler, user_id |-> u, completion |-> completion,
     exception |-> exception]

(***************************************************************************)
(* Initial state                                                           *)
(***************************************************************************)
InitBot ==
    /\ user_conversations = << >>
    /\ task = Idle
    /\ outbox = << >>
    /\ result = Result("none", 0, "none", "none")
    /\ received = 0
    /\ faults = 0
    /\ appended = [u \in Users |-> << >>]

InitWeb ==
    /\ bot_stats = [status |-> "online", api_status |-> "connected",
                    response_count |-> 0, active_users |-> {},
                    \* None is 0; 2.5 s is 25 tenths
                    last_message_time |-> 0, average_response_time |-> 25]
    /\ http = NoResponse
    /\ requests = 0
    /\ carried = [k \in Ids |-> 0]

InitThreads == threads = [t \in Threads |-> IdleThread(NoResponse)]

Init == InitBot /\ InitWeb /\ InitThreads /\ call = Idle

\* a direct call send_long_message(update, message, max_length)
InitChunk ==
    /\ InitBot /\ InitWeb /\ InitThreads
    /\ \E message \in Texts, max_length \in 1..MaxChunkLen :
          call = [pc |-> "called", message |-> message, max_length |-> max_length]

(***************************************************************************)
(* bot.py: command handlers                                                *)
(***************************************************************************)
\* bot.py:54-73
StartCommand(u, hasMessage, sendOk, ehOk) ==
    /\ task.pc = "idle"
    /\ faults + Cost(<<sendOk, ehOk>>) <= MaxFaults
    /\ sendOk => ehOk
    /\ ~hasMessage => sendOk
    /\ faults' = faults + Cost(<<sendOk, ehOk>>)
    /\ outbox' = CommandSends("welcome", << >>, hasMessage, sendOk, ehOk)
    /\ result' = Result("start", u, "none",
                        IF Replied(hasMessage, sendOk) THEN "none" ELSE "escaped")
    /\ user_conversations' = IF Replied(hasMessage, sendOk)
                             THEN EnsureHistory(user_conversations, u)
                             ELSE user_conversations
    /\ UNCHANGED <<appended, task, received>>
    /\ UNCHANGED notBotVars

\* bot.py:75-94
HelpCommand(u, hasMessage, sendOk, ehOk) ==
    /\ task.pc = "idle"
    /\ faults + Cost(<<sendOk, ehOk>>) <= MaxFaults
    /\ sendOk => ehOk
    /\ ~hasMessage => sendOk
    /\ faults' = faults + Cost(<<sendOk, ehOk>>)
    /\ outbox' = CommandSends("help", << >>, hasMessage, sendOk, ehOk)
    /\ result' = Result("help", u, "none",
                        IF Replied(hasMessage, sendOk) THEN "none" ELSE "escaped")
    /\ UNCHANGED <<user_conversations, appended, task, received>>
    /\ UNCHANGED notBotVars

\* the history reset only after the reply has been sent
ClearCommand_AfterReply(u, hasMessage, sendOk, ehOk) ==
    /\ task.pc = "idle"
    /\ faults + Cost(<<sendOk, ehOk>>) <= MaxFaults
    /\ sendOk => ehOk
    /\ ~hasMessage => sendOk
    /\ faults' = faults + Cost(<<sendOk, ehOk>>)
    /\ IF u \in DOMAIN user_conversations
       THEN /\ user_conversations' =
                 IF Replied(hasMessage, sendOk)
                 THEN [user_conversations EXCEPT ![u] = << >>]
                 ELSE user_conversations
            /\ appended' = IF Replied(hasMessage, sendOk)
                           THEN [appended EXCEPT ![u] = << >>]
                           ELSE appended
            /\ outbox' = CommandSends("cleared", << >>, hasMessage, sendOk, ehOk)
       ELSE /\ UNCHANGED <<user_conversations, appended>>
            /\ outbox' = CommandSends("nothing_to_clear", << >>, hasMessage, sendOk, ehOk)
    /\ result' = Result("clear", u, "none",
                        IF Replied(hasMessage, sendOk) THEN "none" ELSE "escaped")
    /\ UNCHANGED <<task, received>>
    /\ UNCHANGED notBotVars

\* every history reset: user_conversations[k] = [] for every k
ClearCommand_AllUsers(u, hasMessage, sendOk, ehOk) ==
    /\ task.pc = "idle"
    /\ faults + Cost(<<sendOk, ehOk>>) <= MaxFaults
    /\ sendOk => ehOk
    /\ ~hasMessage => sendOk
    /\ faults' = faults + Cost(<<sendOk, ehOk>>)
    /\ IF u \in DOMAIN user_conversations
       THEN /\ user_conversations' = [k \in DOMAIN user_conversations |-> << >>]
            /\ appended' = [k \in Users |-> << >>]
            /\ outbox' = CommandSends("cleared", << >>, hasMessage, sendOk, ehOk)
       ELSE /\ UNCHANGED <<user_conversations, appended>>
            /\ outbox' = CommandSends("nothing_to_clear", << >>, hasMessage, sendOk, ehOk)
    /\ result' = Result("clear", u, "none",
                        IF Replied(hasMessage, sendOk) THEN "none" ELSE "escaped")
    /\ UNCHANGED <<task, received>>
    /\ UNCHANGED notBotVars

\* bot.py:96-106
ClearCommand(u, hasMessage, sendOk, ehOk) ==
    /\ task.pc = "idle"
    /\ faults + Cost(<<sendOk, ehOk>>) <= MaxFaults
    /\ sendOk => ehOk
    /\ ~hasMessage => sendOk
    /\ faults' = faults + Cost(<<sendOk, ehOk>>)
    /\ IF u \in DOMAIN user_conversations
       THEN /\ user_conversations' = [user_conversations EXCEPT ![u] = << >>]
            /\ appended' = [appended EXCEPT ![u] = << >>]
            /\ outbox' = CommandSends("cleared", << >>, hasMessage, sendOk, ehOk)
       ELSE /\ UNCHANGED <<user_conversations, appended>>
            /\ outbox' = CommandSends("nothing_to_clear", << >>, hasMessage, sendOk, ehOk)
    /\ result' = Result("clear", u, "none",
                        IF Replied(hasMessage, sendOk) THEN "none" ELSE "escaped")
    /\ UNCHANGED <<task, received>>
    /\ UNCHANGED notBotVars

\* bot.py:108-121
StatusCommand(u, hasMessage, sendOk, ehOk) ==
    /\ task.pc = "idle"
    /\ faults + Cost(<<sendOk, ehOk>>) <= MaxFaults
    /\ sendOk => ehOk
    /\ ~hasMessage => sendOk
    /\ faults' = faults + Cost(<<sendOk, ehOk>>)
    /\ LET conversation_length == Len(GetHistory(user_conversations, u))
       IN  outbox' = CommandSends("status", <<conversation_length>>, hasMessage, sendOk, ehOk)
    /\ result' = Result("status", u, "none",
                        IF Replied(hasMessage, sendOk) THEN "none" ELSE "escaped")
    /\ UNCHANGED <<user_conversations, appended, task, received>>
    /\ UNCHANGED notBotVars

(***************************************************************************)
(* bot.py: handle_message, in two steps around the completion call         *)
(***************************************************************************)
\* bot.py:125-150 and 174-199: up to the point where the completion request
\* has been built and is sent; on an update without message, line 126
\* (update.message.text) raises AttributeError before anything else is done
HandleMessageStart(u, hasMessage, cap, typingOk, ehOk) ==
    /\ task.pc = "idle"
    /\ received + requests < cap
    /\ faults + Cost(<<typingOk, ehOk>>) <= MaxFaults
    /\ typingOk => ehOk
    /\ ~hasMessage => typingOk
    /\ faults' = faults + Cost(<<typingOk, ehOk>>)
    /\ received' = IF hasMessage THEN received + 1 ELSE received
    /\ LET user_message == <<received + 1>>
           conv1 == EnsureHistory(user_conversations, u)
           conv2 == [conv1 EXCEPT ![u] = AppendUserMessage(@, user_message)]
       IN  IF ~hasMessage
           THEN /\ UNCHANGED <<user_conversations, appended, task>>
                /\ outbox' = ErrorHandlerSends(hasMessage, ehOk)
                /\ result' = Result("handle_message", u, "none", "escaped")
           ELSE IF typingOk
           THEN /\ user_conversations' = conv2
                /\ appended' = [appended EXCEPT
                                  ![u] = Append(@, Message("user", user_message))]
                /\ task' = [pc |-> "completion", user_id |-> u,
                            user_message |-> user_message,
                            before |-> GetHistory(user_conversations, u),
                            messages |-> BuildMessages(conv2, u)]
                /\ outbox' = << >>
                /\ result' = Result("handle_message", u, "pending", "none")
           ELSE /\ user_conversations' = conv1
                /\ UNCHANGED <<appended, task>>
                /\ outbox' = ErrorHandlerSends(hasMessage, ehOk)
                /\ result' = Result("handle_message", u, "none", "escaped")
    /\ UNCHANGED notBotVars

\* bot.py:150-170 and 201-205: from the completion call's outcome to the end
HandleMessageFinish(completionOk, failAt, noticeOk, ehOk) ==
    /\ task.pc = "completion"
    /\ LET u == task.user_id
           \* the reply to the text <<n>> is the text <<n>>; the roles differ
           response == task.user_message
           chunks == SendLongMessageChunks(response, DefaultMaxLength)
           deliverOk == failAt = 0
           caught == ~completionOk \/ ~deliverOk
           flags == <<completionOk, deliverOk, noticeOk, ehOk>>
       IN  /\ failAt \in 0..Len(chunks)
           /\ ~completionOk => deliverOk
           /\ ~caught => noticeOk
           /\ noticeOk => ehOk
           /\ faults + Cost(flags) <= MaxFaults
           /\ faults' = faults + Cost(flags)
           /\ user_conversations' =
                IF completionOk
                THEN [user_conversations EXCEPT
                        ![u] = AppendAssistantMessage(@, response)]
                ELSE user_conversations
           /\ appended' =
                IF completionOk
                THEN [appended EXCEPT ![u] = Append(@, Message("assistant", response))]
                ELSE appended
           /\ outbox' =
                (IF completionOk THEN SendChunks(chunks, failAt) ELSE << >>)
                \o (IF caught THEN <<Out("error_notice", << >>, noticeOk)>> ELSE << >>)
                \o (IF caught /\ ~noticeOk THEN ErrorHandlerSends(TRUE, ehOk) ELSE << >>)
           /\ result' = Result("handle_message", u,
                               IF completionOk THEN "ok" ELSE "failed",
                               IF caught /\ ~noticeOk THEN "escaped" ELSE "none")
    /\ task' = Idle
    /\ UNCHANGED received
    /\ UNCHANGED notBotVars

(***************************************************************************)
(* web_server.py: JSON values of a webhook payload                         *)
(*   null, an integer, or an object (a function from its keys to values)   *)
(***************************************************************************)
JNull == [t |-> "null"]
JInt(n) == [t |-> "int", v |-> n]
JObj(f) == [t |-> "obj", v |-> f]
EmptyObj == JObj(<< >>)

\* Python truthiness: None, 0 and {} are false
Truthy(x) ==
    CASE x.t = "null" -> FALSE
      [] x.t = "int" -> x.v # 0
      [] x.t = "obj" -> DOMAIN x.v # {}

Ok(val) == [ok |-> TRUE, val |-> val]
Raise(err) == [ok |-> FALSE, err |-> err]

\* key in x
Contains(x, key) ==
    IF x.t = "obj" THEN Ok(key \in DOMAIN x.v) ELSE Raise("TypeError")

\* x[key]
Subscript(x, key) ==
    IF x.t # "obj" THEN Raise("TypeError")
    ELSE IF key \in DOMAIN x.v THEN Ok(x.v[key]) ELSE Raise("KeyError")

\* whether set.add(x) accepts x: a dict is unhashable
Hashable(x) == x.t # "obj"

\* web_server.py:68-73: what the webhook does with the payload before it
\* touches the stats: "no_message", "error", or "message" with the user id,
\* which is whatever hashable value the payload holds there: JInt(n), or JNull
\* (Python's None) for a null id
ParseUpdate(update_data) ==
    IF ~Truthy(update_data) THEN [kind |-> "no_message"]
    ELSE LET has == Contains(update_data, "message")
         IN  IF ~has.ok THEN [kind |-> "error"]
             ELSE IF ~has.val THEN [kind |-> "no_message"]
             ELSE LET message == Subscript(update_data, "message")
                      sender == IF message.ok THEN Subscript(message.val, "from")
                                ELSE message
                      user_id == IF sender.ok THEN Subscript(sender.val, "id")
                                 ELSE sender
                  IN  IF ~user_id.ok THEN [kind |-> "error"]
                      ELSE IF ~Hashable(user_id.val) THEN [kind |-> "error"]
                      ELSE [kind |-> "message", user_id |-> user_id.val]

\* the count left as it was
RecordMessage_NoCount(stats, user_id, now) ==
    [stats EXCEPT !.active_users = @ \cup {user_id},
                  !.last_message_time = now]

\* web_server.py:73-75 and 107-109
RecordMessage(stats, user_id, now) ==
    [stats EXCEPT !.active_users = @ \cup {user_id},
                  !.last_message_time = now,
                  !.response_count = @ + 1]

MessageFrom(id) == JObj([message |-> JObj([from |-> JObj([id |-> id])])])

Payloads ==
    { JNull, EmptyObj, JInt(5),
      JObj([update_id |-> JInt(1)]),
      JObj([message |-> JInt(7)]),
      JObj([message |-> JNull]),
      JObj([message |-> JObj([text |-> JInt(1)])]),
      JObj([message |-> JObj([from |-> JInt(3)])]),
      JObj([message |-> JObj([from |-> JObj([name |-> JInt(1)])])]),
      MessageFrom(EmptyObj), MessageFrom(JNull) }
    \cup { MessageFrom(JInt(u)) : u \in Users }

Times == {1, 2}

(***************************************************************************)
(* web_server.py: the handlers, one request at a time                      *)
(***************************************************************************)
\* the request counted before the payload is looked at
Webhook_CountFirst(update_data, now) ==
    /\ received + requests < MaxEvents
    /\ requests' = requests + 1
    /\ LET parsed == ParseUpdate(update_data)
           counted == [bot_stats EXCEPT !.response_count = @ + 1]
       IN  CASE parsed.kind = "message" ->
                  /\ bot_stats' = [counted EXCEPT
                                     !.active_users = @ \cup {parsed.user_id},
                                     !.last_message_time = now]
                  /\ carried' = [carried EXCEPT ![parsed.user_id] = @ + 1]
                  /\ http' = Response(200, "ok")
             [] parsed.kind = "no_message" ->
                  /\ UNCHANGED <<bot_stats, carried>>
                  /\ http' = Response(200, "no_message")
             [] parsed.kind = "error" ->
                  /\ bot_stats' = counted
                  /\ UNCHANGED carried
                  /\ http' = Response(500, "error")
    /\ UNCHANGED <<botVars, threads, call>>

\* web_server.py:64-87
Webhook(update_data, now) ==
    /\ received + requests < MaxEvents
    /\ requests' = requests + 1
    /\ LET parsed == ParseUpdate(update_data)
       IN  CASE parsed.kind = "message" ->
                  /\ bot_stats' = RecordMessage(bot_stats, parsed.user_id, now)
                  /\ carried' = [carried EXCEPT ![parsed.user_id] = @ + 1]
                  /\ http' = Response(200, "ok")
             [] parsed.kind = "no_message" ->
                  /\ UNCHANGED <<bot_stats, carried>>
                  /\ http' = Response(200, "no_message")
             [] parsed.kind = "error" ->
                  /\ UNCHANGED <<bot_stats, carried>>
                  /\ http' = Response(500, "error")
    /\ UNCHANGED <<botVars, threads, call>>

\* web_server.py:98-109; status or api_status left out (None) is "",
\* response_time left out is 0, user_id left out is JNull
UpdateBotStats(status, api_status, response_time, user_id, now) ==
    /\ received + requests < MaxEvents
    /\ requests' = requests + 1
    /\ LET s1 == IF status # "" THEN [bot_stats EXCEPT !.status = status]
                 ELSE bot_stats
           s2 == IF api_status # "" THEN [s1 EXCEPT !.api_status = api_status]
                 ELSE s1
           s3 == IF response_time # 0
                 THEN [s2 EXCEPT !.average_response_time = response_time]
                 ELSE s2
       IN  bot_stats' = IF Truthy(user_id) THEN RecordMessage(s3, user_id, now)
                        ELSE s3
    /\ carried' = IF Truthy(user_id) THEN [carried EXCEPT ![user_id] = @ + 1]
                  ELSE carried
    /\ UNCHANGED <<http, botVars, threads, call>>

(***************************************************************************)
(* web_server.py on the worker threads of the web server (app.run serves   *)
(* each request on a thread of its own) and update_bot_stats called from   *)
(* another thread: one step per access to the shared bot_stats             *)
(***************************************************************************)
\* web_server.py:68-73: parse the payload, add the user id to active_users
WebhookBegin(t, update_data) ==
    /\ threads[t].pc = "idle"
    /\ received + requests < MaxEvents
    /\ requests' = requests + 1
    /\ LET parsed == ParseUpdate(update_data)
       IN  CASE parsed.kind = "message" ->
                  /\ bot_stats' = [bot_stats EXCEPT
                                     !.active_users = @ \cup {parsed.user_id}]
                  /\ carried' = [carried EXCEPT ![parsed.user_id] = @ + 1]
                  /\ threads' = [threads EXCEPT
                                   ![t] = [@ EXCEPT !.pc = "time", !.op = "webhook",
                                                    !.user_id = parsed.user_id]]
             [] parsed.kind = "no_message" ->
                  /\ UNCHANGED <<bot_stats, carried>>
                  /\ threads' = [threads EXCEPT
                                   ![t] = IdleThread(Response(200, "no_message"))]
             [] parsed.kind = "error" ->
                  /\ UNCHANGED <<bot_stats, carried>>
                  /\ threads' = [threads EXCEPT
                                   ![t] = IdleThread(Response(500, "error"))]
    /\ UNCHANGED <<botVars, http, call>>

\* web_server.py:100-107: the next statement of update_bot_stats, from test
\* number k on, that writes to bot_stats; the tests read the arguments only
UpdateNext(l, k) ==
    IF k <= 1 /\ l.status # "" THEN "status"
    ELSE IF k <= 2 /\ l.api_status # "" THEN "api_status"
    ELSE IF k <= 3 /\ l.response_time # 0 THEN "response_time"
    ELSE IF Truthy(l.user_id) THEN "add"
    ELSE "idle"

\* the thread moves on to position pc, or returns when there is none
Goto(l, pc) == IF pc = "idle" THEN IdleThread(l.resp) ELSE [l EXCEPT !.pc = pc]

\* web_server.py:98: update_bot_stats is called; nothing is written yet
UpdateBegin(t, status, api_status, response_time, user_id) ==
    /\ threads[t].pc = "idle"
    /\ received + requests < MaxEvents
    /\ requests' = requests + 1
    /\ carried' = IF Truthy(user_id) THEN [carried EXCEPT ![user_id] = @ + 1]
                  ELSE carried
    /\ LET l == [threads[t] EXCEPT !.op = "update_bot_stats",
                                   !.status = status,
                                   !.api_status = api_status,
                                   !.response_time = response_time,
                                   !.user_id = user_id]
       IN  threads' = [threads EXCEPT ![t] = Goto(l, UpdateNext(l, 1))]
    /\ UNCHANGED <<botVars, bot_stats, http, call>>

\* web_server.py:101
WriteStatus(t) ==
    /\ threads[t].pc = "status"
    /\ bot_stats' = [bot_stats EXCEPT !.status = threads[t].status]
    /\ threads' = [threads EXCEPT ![t] = Goto(@, UpdateNext(@, 2))]
    /\ UNCHANGED <<botVars, http, requests, carried, call>>

\* web_server.py:103
WriteApiStatus(t) ==
    /\ threads[t].pc = "api_status"
    /\ bot_stats' = [bot_stats EXCEPT !.api_status = threads[t].api_status]
    /\ threads' = [threads EXCEPT ![t] = Goto(@, UpdateNext(@, 3))]
    /\ UNCHANGED <<botVars, http, requests, carried, call>>

\* web_server.py:105
WriteResponseTime(t) ==
    /\ threads[t].pc = "response_time"
    /\ bot_stats' = [bot_stats EXCEPT
                       !.average_response_time = threads[t].response_time]
    /\ threads' = [threads EXCEPT ![t] = Goto(@, UpdateNext(@, 4))]
    /\ UNCHANGED <<botVars, http, requests, carried, call>>

\* web_server.py:107
AddUser(t) ==
    /\ threads[t].pc = "add"
    /\ bot_stats' = [bot_stats EXCEPT !.active_users = @ \cup {threads[t].user_id}]
    /\ threads' = [threads EXCEPT ![t] = [@ EXCEPT !.pc = "time"]]
    /\ UNCHANGED <<botVars, http, requests, carried, call>>

\* web_server.py:74 and 108
SetTime(t, now) ==
    /\ threads[t].pc = "time"
    /\ bot_stats' = [bot_stats EXCEPT !.last_message_time = now]
    /\ threads' = [threads EXCEPT ![t] = [@ EXCEPT !.pc = "load"]]
    /\ UNCHANGED <<botVars, http, requests, carried, call>>

\* web_server.py:75 and 109: the read of bot_stats['response_count'] += 1
LoadCount(t) ==
    /\ threads[t].pc = "load"
    /\ threads' = [threads EXCEPT
                     ![t] = [@ EXCEPT !.pc = "store",
                                      !.tmp = bot_stats.response_count]]
    /\ UNCHANGED <<botVars, bot_stats, http, requests, carried, call>>

\* web_server.py:75-81 and 109: the write of the += 1, and the return
StoreCount(t) ==
    /\ threads[t].pc = "store"
    /\ bot_stats' = [bot_stats EXCEPT !.response_count = threads[t].tmp + 1]
    /\ threads' = [threads EXCEPT
                     ![t] = IdleThread(IF @.op = "webhook" THEN Response(200, "ok")
                                       ELSE @.resp)]
    /\ UNCHANGED <<botVars, http, requests, carried, call>>

\* strftime('%H:%M:%S') of a time, and the text 'None'
Strftime(t) == [fmt |-> "%H:%M:%S", t |-> t]
NoneText == [fmt |-> "None", t |-> 0]

\* web_server.py:50-57: GET /api/status reads len(bot_stats['active_users'])
StatusBegin(t) ==
    /\ threads[t].pc = "idle"
    /\ received + requests < MaxEvents
    /\ requests' = requests + 1
    /\ threads' = [threads EXCEPT
                     ![t] = [@ EXCEPT !.pc = "read_count", !.op = "api_status",
                                      !.n = Cardinality(bot_stats.active_users)]]
    /\ UNCHANGED <<botVars, bot_stats, http, carried, call>>

\* web_server.py:59: it reads bot_stats['response_count']
ReadCount(t) ==
    /\ threads[t].pc = "read_count"
    /\ threads' = [threads EXCEPT
                     ![t] = [@ EXCEPT !.pc = "read_last",
                                      !.tmp = bot_stats.response_count]]
    /\ UNCHANGED <<botVars, bot_stats, http, requests, carried, call>>

\* web_server.py:60-62: it reads bot_stats['last_message_time'] and returns
ReadLast(t) ==
    /\ threads[t].pc = "read_last"
    /\ threads' = [threads EXCEPT
                     ![t] = IdleThread(
                        [code |-> 200, status |-> "status",
                         active_users |-> @.n,
                         total_responses |-> @.tmp,
                         last_message |-> IF bot_stats.last_message_time # 0
                                          THEN Strftime(bot_stats.last_message_time)
                                          ELSE NoneText])]
    /\ UNCHANGED <<botVars, bot_stats, http, requests, carried, call>>

(***************************************************************************)
(* bot.py: send_long_message called on its own                             *)
(***************************************************************************)
\* bot.py:207-217
SendLongMessage(failAt) ==
    /\ call.pc = "called"
    /\ LET chunks == SendLongMessageChunks(call.message, call.max_length)
       IN  /\ failAt \in 0..Len(chunks)
           /\ outbox' = SendChunks(chunks, failAt)
    /\ call' = [call EXCEPT !.pc = IF failAt = 0 THEN "returned" ELSE "raised"]
    /\ UNCHANGED <<user_conversations, task, result, received, faults, appended,
                   bot_stats, http, requests, carried, threads>>

(***************************************************************************)
(* Specifications                                                          *)
(***************************************************************************)
Next ==
    \/ \E u \in Users, hasMessage, sendOk, ehOk \in BOOLEAN :
          StartCommand(u, hasMessage, sendOk, ehOk)
    \/ \E u \in Users, hasMessage, sendOk, ehOk \in BOOLEAN :
          HelpCommand(u, hasMessage, sendOk, ehOk)
    \/ \E u \in Users, hasMessage, sendOk, ehOk \in BOOLEAN :
          ClearCommand(u, hasMessage, sendOk, ehOk)
    \/ \E u \in Users, hasMessage, sendOk, ehOk \in BOOLEAN :
          StatusCommand(u, hasMessage, sendOk, ehOk)
    \/ \E u \in Users, hasMessage, typingOk, ehOk \in BOOLEAN :
          HandleMessageStart(u, hasMessage, MaxEvents, typingOk, ehOk)
    \/ \E completionOk, noticeOk, ehOk \in BOOLEAN, failAt \in 0..1 :
          HandleMessageFinish(completionOk, failAt, noticeOk, ehOk)
    \/ \E update_data \in Payloads, now \in Times : Webhook(update_data, now)
    \/ \E user_id \in Ids, now \in Times :
          UpdateBotStats("", "", 0, user_id, now)

Spec == Init /\ [][Next]_vars

NextHistory ==
    \/ \E u \in DeepUsers, hasMessage, sendOk, ehOk \in BOOLEAN :
          StartCommand(u, hasMessage, sendOk, ehOk)
    \/ \E u \in DeepUsers, hasMessage, sendOk, ehOk \in BOOLEAN :
          HelpCommand(u, hasMessage, sendOk, ehOk)
    \/ \E u \in DeepUsers, hasMessage, sendOk, ehOk \in BOOLEAN :
          ClearCommand(u, hasMessage, sendOk, ehOk)
    \/ \E u \in DeepUsers, hasMessage, sendOk, ehOk \in BOOLEAN :
          StatusCommand(u, hasMessage, sendOk, ehOk)
    \/ \E u \in DeepUsers, hasMessage, typingOk, ehOk \in BOOLEAN :
          HandleMessageStart(u, hasMessage, MaxDeepMessages, typingOk, ehOk)
    \/ \E completionOk, noticeOk, ehOk \in BOOLEAN, failAt \in 0..1 :
          HandleMessageFinish(completionOk, failAt, noticeOk, ehOk)

SpecHistory == Init /\ [][NextHistory]_vars

\* update_bot_stats(status, api_status, response_time, ...): nothing but the
\* user id given, or all of them; 30 is 3.0 s in tenths
UpdateArgs == { <<"", "", 0>>, <<"offline", "disconnected", 30>> }

NextConc ==
    \/ \E t \in Threads, update_data \in Payloads : WebhookBegin(t, update_data)
    \/ \E t \in Threads, a \in UpdateArgs, user_id \in Ids :
          UpdateBegin(t, a[1], a[2], a[3], user_id)
    \/ \E t \in Threads : WriteStatus(t)
    \/ \E t \in Threads : WriteApiStatus(t)
    \/ \E t \in Threads : WriteResponseTime(t)
    \/ \E t \in Threads : AddUser(t)
    \/ \E t \in Threads, now \in Times : SetTime(t, now)
    \/ \E t \in Threads : LoadCount(t)
    \/ \E t \in Threads : StoreCount(t)
    \/ \E t \in Threads : StatusBegin(t)
    \/ \E t \in Threads : ReadCount(t)
    \/ \E t \in Threads : ReadLast(t)

SpecConc == Init /\ [][NextConc]_vars

NextChunk == \E failAt \in 0..(MaxTextLen + 1) : SendLongMessage(failAt)

SpecChunk == InitChunk /\ [][NextChunk]_vars

(***************************************************************************)
(* Claims                                                                  *)
(***************************************************************************)
History(u) == GetHistory(user_conversations, u)

\* the k most recent entries of s, in order
MostRecent(s, k) == [i \in 1..k |-> s[Len(s) - k + i]]

\* u's history grew by one appended message in this step
AppendedTo(u) == Len(appended'[u]) = Len(appended[u]) + 1

\* the step is the end of a handle_message cycle
CycleEnds == task.pc = "completion" /\ task'.pc = "idle"

\* C1: in every reachable state every user's conversation history has at most
\* max_conversation_length (20) entries
C1_HistoryBounded ==
    \A u \in DOMAIN user_conversations :
        Len(user_conversations[u]) <= max_conversation_length

\* C2: eviction is strict FIFO: an append to a history that is not at capacity
\* only adds the message at the end, and an append to a history at capacity
\* removes exactly the oldest entry and adds the message at the end
C2_StrictFifo ==
    [][\A u \in Users :
         AppendedTo(u) =>
            LET h == History(u)
                m == appended'[u][Len(appended'[u])]
            IN  user_conversations'[u] =
                   IF Len(h) < max_conversation_length THEN Append(h, m)
                   ELSE Append(Tail(h), m)]_vars

\* only successful cycles since the history was last empty: the appended
\* messages alternate user, assistant and the last cycle is complete
OnlySuccessfulCycles(u) ==
    /\ task.pc = "idle"
    /\ Len(appended[u]) % 2 = 0
    /\ \A i \in 1..Len(appended[u]) :
          appended[u][i].role = IF i % 2 = 1 THEN "user" ELSE "assistant"

\* C3: after n messages appended by consecutive successful cycles the history
\* is the most recent min(n, 20) of them, in their order
C3_MostRecentWindow ==
    \A u \in DOMAIN user_conversations :
        OnlySuccessfulCycles(u) =>
            user_conversations[u] =
               MostRecent(appended[u], Min(Len(appended[u]), max_conversation_length))

\* C4 as stated: when the completion call fails, the history is one entry
\* longer than before the cycle, no assistant message was appended and the
\* error notice is sent
C4_FailedCyclePlusOne ==
    [][(CycleEnds /\ result'.completion = "failed") =>
         LET h == user_conversations'[task.user_id]
         IN  /\ Len(h) = Len(task.before) + 1
             /\ h[Len(h)] = Message("user", task.user_message)
             /\ \E i \in 1..Len(outbox') : outbox'[i].kind = "error_notice"]_vars

\* C4 amended: when the completion call fails, the history has
\* min(length before the cycle + 1, 20) entries: the entries before the cycle
\* followed by the user's message, cut to the 20 most recent; no assistant
\* message was appended and the error notice is sent
C4_FailedCycle ==
    [][(CycleEnds /\ result'.completion = "failed") =>
         LET h == user_conversations'[task.user_id]
             all == Append(task.before, Message("user", task.user_message))
             n == Min(Len(task.before) + 1, max_conversation_length)
         IN  /\ Len(h) = n
             /\ h = MostRecent(all, n)
             /\ h[Len(h)] = Message("user", task.user_message)
             /\ appended'[task.user_id] = appended[task.user_id]
             /\ \E i \in 1..Len(outbox') : outbox'[i].kind = "error_notice"]_vars

\* a failed cycle has ended for a user whose history was at capacity before it
C4_Witness ==
    /\ task.pc = "idle"
    /\ result.handler = "handle_message" /\ result.completion = "failed"
    /\ Len(History(result.user_id)) = max_conversation_length
    /\ Len(appended[result.user_id]) > max_conversation_length + 1
    /\ \E i \in 1..Len(outbox) : outbox[i].kind = "error_notice"

\* C5: when the completion call succeeds, the history has
\* min(length before the cycle + 2, 20) entries and its last two entries are
\* the user's message and the assistant's reply
C5_SuccessfulCycle ==
    [][(CycleEnds /\ result'.completion = "ok") =>
         LET h == user_conversations'[task.user_id]
         IN  /\ Len(h) = Min(Len(task.before) + 2, max_conversation_length)
             /\ h[Len(h) - 1] = Message("user", task.user_message)
             /\ h[Len(h)].role = "assistant"]_vars

\* C6: a successful handle_message cycle for user U increments response_count
\* by one, puts U in active_users and sets last_message_time; a failed cycle
\* leaves the stats unchanged
C6_CycleUpdatesStats ==
    [][CycleEnds =>
         IF result'.completion = "ok" /\ result'.exception = "none"
            /\ \A i \in 1..Len(outbox') : outbox'[i].ok
         THEN /\ bot_stats'.response_count = bot_stats.response_count + 1
              /\ JInt(task.user_id) \in bot_stats'.active_users
              /\ bot_stats'.last_message_time # 0
         ELSE bot_stats' = bot_stats]_vars

RECURSIVE SumOver(_, _)
SumOver(f, S) ==
    IF S = {} THEN 0
    ELSE LET x == CHOOSE y \in S : TRUE IN f[x] + SumOver(f, S \ {x})

\* C7: once all concurrent webhook requests and update_bot_stats calls have
\* finished, response_count is the number of those that carried a user id,
\* and active_users holds every user id they carried
C7_NoLostUpdate ==
    (\A t \in Threads : threads[t].pc = "idle") =>
        /\ bot_stats.response_count = SumOver(carried, Ids)
        /\ \A k \in Ids : carried[k] > 0 => k \in bot_stats.active_users

CeilDiv(a, b) == (a + b - 1) \div b

RECURSIVE Concat(_)
Concat(texts) ==
    IF texts = << >> THEN << >> ELSE Head(texts) \o Concat(Tail(texts))

\* C8: when send_long_message(message, max_length) returns, it has sent
\* ceil(L/M) messages (1 when L = 0), their concatenation in order is the
\* message, every one but the last has length M and none is longer than M
C8_Chunking ==
    call.pc = "returned" =>
        LET L == Len(call.message)
            M == call.max_length
            n == Len(outbox)
        IN  /\ n = IF L = 0 THEN 1 ELSE CeilDiv(L, M)
            /\ Concat([i \in 1..n |-> outbox[i].body]) = call.message
            /\ \A i \in 1..n : outbox[i].kind = "reply" /\ outbox[i].ok
            /\ \A i \in 1..(n - 1) : Len(outbox[i].body) = M
            /\ \A i \in 1..n : Len(outbox[i].body) <= M

\* a text was sent as three chunks, the last one shorter than the others
C8_Witness ==
    /\ call.pc = "returned"
    /\ Len(outbox) = 3
    /\ Len(outbox[3].body) < Len(outbox[1].body)

\* the payload holds no message: no body, or an object without "message"
NoMessage(p) == p.t = "null" \/ (p.t = "obj" /\ "message" \notin DOMAIN p.v)

\* C9: a webhook POST with a message from user id X returns 200, adds X to
\* active_users, increments response_count by one and sets
\* last_message_time; one whose payload holds no message returns 200
\* "no_message" and leaves the stats unchanged
C9_WebhookEffect ==
    [][requests' # requests =>
         /\ \A x \in Users, now \in Times :
              Webhook(MessageFrom(JInt(x)), now) =>
                 /\ http' = Response(200, "ok")
                 /\ bot_stats'.active_users = bot_stats.active_users \cup {JInt(x)}
                 /\ bot_stats'.response_count = bot_stats.response_count + 1
                 /\ bot_stats'.last_message_time = now
                 /\ bot_stats' = [bot_stats EXCEPT
                                    !.active_users = bot_stats'.active_users,
                                    !.response_count = bot_stats'.response_count,
                                    !.last_message_time = now]
         /\ \A p \in Payloads, now \in Times :
              (NoMessage(p) /\ Webhook(p, now)) =>
                 /\ http' = Response(200, "no_message")
                 /\ bot_stats' = bot_stats]_vars

\* a webhook without a message was answered after stats had been recorded
C9_Witness ==
    /\ http = Response(200, "no_message")
    /\ bot_stats.response_count > 0
    /\ bot_stats.active_users # {}

\* the payload has a message that lacks the expected fields: the message is
\* no object, or has no "from", or its "from" is no object or has no "id"
Malformed(p) ==
    /\ p.t = "obj" /\ "message" \in DOMAIN p.v
    /\ LET m == p.v["message"]
       IN  \/ m.t # "obj"
           \/ "from" \notin DOMAIN m.v
           \/ m.v["from"].t # "obj"
           \/ "id" \notin DOMAIN m.v["from"].v

\* C10: a webhook POST whose message lacks the expected fields returns 500
\* with an error body and leaves the stats and every conversation history
\* unchanged
C10_MalformedWebhook ==
    [][(/\ requests' # requests
        /\ \E p \in Payloads :
              Malformed(p) /\ \E now \in Times : Webhook(p, now)) =>
          /\ http' = Response(500, "error")
          /\ bot_stats' = bot_stats
          /\ user_conversations' = user_conversations]_vars

\* a malformed webhook was answered with 500 while a user has a history of a
\* message and its reply
C10_Witness ==
    /\ http = Response(500, "error")
    /\ \E u \in DOMAIN user_conversations : Len(user_conversations[u]) = 2

\* C11: whatever user U's history was (absent, empty, or non-empty up to
\* capacity), a read of it after /clear gives the empty sequence, the /status
\* that follows a /clear reports length 0, and a /clear that follows a /clear
\* leaves the histories as the first one left them
C11_ClearThenRead ==
    [][\A u \in Users :
         /\ (\E hasMessage, sendOk, ehOk \in BOOLEAN :
                ClearCommand(u, hasMessage, sendOk, ehOk)) =>
               /\ GetHistory(user_conversations', u) = << >>
               /\ Len(GetHistory(user_conversations', u)) = 0
               /\ (result.handler = "clear" /\ result.user_id = u) =>
                     user_conversations' = user_conversations
         /\ ((\E sendOk, ehOk \in BOOLEAN : StatusCommand(u, TRUE, sendOk, ehOk))
             /\ result.handler = "clear" /\ result.user_id = u) =>
               outbox'[1].body = <<0>>]_vars

\* a /clear has emptied a history that existed, after more messages than fill
\* a history to capacity
C11_Witness ==
    /\ result.handler = "clear"
    /\ outbox # << >> /\ outbox[1].kind = "cleared"
    /\ user_conversations[result.user_id] = << >>
    /\ received > max_conversation_length \div 2

\* C12: every failure inside a handle_message cycle (the completion call, a
\* send of the reply, the send of the error notice) is caught inside
\* handle_message: a cycle that got as far as the completion call ends without
\* an exception leaving the handler
C12_NoEscape ==
    (result.handler = "handle_message" /\ result.completion \in {"ok", "failed"})
        => result.exception = "none"

\* C13: when sending the typing indicator fails the cycle goes on: every
\* inbound message taken, whether or not its typing indicator was sent, is
\* appended to the user's history and its completion call is made
C13_TypingBestEffort ==
    [][received' = received + 1 =>
         LET h == user_conversations'[result'.user_id]
         IN  /\ h # << >>
             /\ h[Len(h)] = Message("user", <<received'>>)
             /\ task'.pc = "completion"]_vars

\* C14: a completion call in flight for user A does not block the other
\* users: while A's call is pending, a message of another user B can be taken
\* and handled
C14_OthersNotBlocked ==
    (task.pc = "completion" /\ received + requests < MaxEvents) =>
        ENABLED (\E u \in Users \ {task.user_id} :
                    HandleMessageStart(u, TRUE, MaxEvents, TRUE, TRUE))

\* C15: after /start the invoking user has a history entry: an empty one is
\* created if there was none, an existing history is left exactly as it was,
\* and the histories of the other users are not touched (so repeating /start
\* changes nothing more)
C15_StartIdempotent ==
    [][\A u \in Users :
         (\E hasMessage, sendOk, ehOk \in BOOLEAN :
             StartCommand(u, hasMessage, sendOk, ehOk)) =>
            /\ u \in DOMAIN user_conversations'
            /\ user_conversations' = EnsureHistory(user_conversations, u)]_vars

\* C16: the message list of every completion request is the system message
\* followed by the user's stored history in order; the history part has
\* between 1 and 20 entries and ends with the user message of this cycle
C16_RequestMessages ==
    task.pc = "completion" =>
        LET n == Len(task.messages)
        IN  /\ task.messages = <<SystemMessage>> \o user_conversations[task.user_id]
            /\ task.messages[1].role = "system"
            /\ n - 1 >= 1 /\ n - 1 <= max_conversation_length
            /\ task.messages[n] = Message("user", task.user_message)

\* a request built from a history that held 21 entries before the cycle: two
\* entries were evicted and the request carries 20 history entries
C16_Witness ==
    /\ task.pc = "completion"
    /\ Len(task.before) = max_conversation_length + 1
    /\ Len(task.messages) = max_conversation_length + 1
    /\ task.messages[2] = task.before[3]

\* user v's history is not what it was: created, removed or altered
HistoryChanged(v) ==
    \/ (v \in DOMAIN user_conversations) # (v \in DOMAIN user_conversations')
    \/ /\ v \in DOMAIN user_conversations
       /\ v \in DOMAIN user_conversations'
       /\ user_conversations'[v] # user_conversations[v]

\* C17: an event handled for user U (a message cycle or a part of it, /start,
\* /help, /clear, /status) changes the history of no user but U, however the
\* events of the users follow one another
C17_Isolation ==
    [][\A v \in Users :
         HistoryChanged(v) =>
            /\ result'.user_id = v
            /\ task.pc = "completion" => task.user_id = v]_vars

\* a /clear has emptied its user's history while another user keeps a history
\* of a message and its reply
C17_Witness ==
    /\ result.handler = "clear"
    /\ outbox # << >> /\ outbox[1].kind = "cleared"
    /\ user_conversations[result.user_id] = << >>
    /\ \E v \in DOMAIN user_conversations :
          v # result.user_id /\ Len(user_conversations[v]) = 2

\* C18: a GET /api/status served while the stats are being updated returns no
\* torn snapshot: its active-user count is at most its total_responses, and
\* its last_message is 'None' exactly when its total_responses is 0
C18_NoTornRead ==
    \A t \in Threads :
        threads[t].resp.status = "status" =>
            /\ threads[t].resp.active_users <= threads[t].resp.total_responses
            /\ (threads[t].resp.last_message = NoneText)
                    <=> (threads[t].resp.total_responses = 0)

====
